---- MODULE Spec2Model ----
(***************************************************************************)
(* fancy-ip: the argument decoder (src/src/arg_parser.rs) and the six      *)
(* procedural-macro entry points (src/src/lib.rs).                         *)
(*                                                                         *)
(* A token is a record [tt, text, span]: tt is the TokenTree variant,      *)
(* text is token.to_string(), span is the token's location (its index in   *)
(* the macro input; 0 is Span::call_site()).  The parser's IntoIter is     *)
(* the sequence of tokens not yet consumed.                                *)
(***************************************************************************)
EXTENDS Integers, Sequences, FiniteSets, TLC

VARIABLES
    item,      \* the TokenStream given to the macro / to ArgParser::from
    stream,    \* ArgParser.stream: the tokens not yet consumed
    parsed,    \* ArgParser.parsed
    ret,       \* the last decoder call and what it returned
    before,    \* the parser (parsed, stream) as it was when that call began
    phase,     \* "raw": only next_raw called so far; "count": then one
               \* count_arguments; "mixed": anything else
    nraw,      \* number of next_raw calls made while phase = "raw"
    seenNone,  \* "no": no decode call has returned Ok(None); "now": the last
               \* call was the first to; "before": one did before the last call
    nsome,     \* number of next_raw invocations that returned Ok(Some)
    entry,     \* the entry point running ("none" for the bare decoder)
    pc,        \* the statement of the entry point to run next
    socket,    \* the address value the entry point holds
    outcome    \* how the entry point ended

vars == <<item, stream, parsed, ret, before, phase, nraw, seenNone, nsome,
          entry, pc, socket, outcome>>

(***************************************************************************)
(* Bounds                                                                  *)
(***************************************************************************)
MaxLen == 3      \* longest token stream given to the bare decoder
MaxCalls == 4    \* longest run of next_raw calls counted from a fresh decoder
MaxArgs == 4     \* most arguments given to an entry point

(***************************************************************************)
(* Tokens and literals                                                     *)
(***************************************************************************)
Quote(s) == "\"" \o s \o "\""

\* An integer literal's value is kept as two base-65536 limbs <<hi, lo>>,
\* value hi * 65536 + lo, so that values beyond 2^31 are exact.
Wide(hi, lo) == <<hi, lo>>

WideLeq(a, b) == a[1] < b[1] \/ (a[1] = b[1] /\ a[2] <= b[2])

\* The decimal integer literals used, with their exact values.
IntegerTexts == {"30", "58", "255", "256", "4294967296"}

IntegerDigits(text) ==
    CASE text = "30" -> Wide(0, 30)
      [] text = "58" -> Wide(0, 58)
      [] text = "255" -> Wide(0, 255)
      [] text = "256" -> Wide(0, 256)
      [] text = "4294967296" -> Wide(65536, 0)

\* LiteralType, the kinds litrs classifies a literal token into.
LiteralType == {"Bool", "Integer", "Float", "Char", "String", "Byte", "ByteString"}

\* Literal::from(proc_macro::Literal): litrs parses the token's text.  A
\* string literal's payload is its text without the quotes.
LiteralFrom(text) ==
    CASE text \in IntegerTexts -> [kind |-> "Integer", text |-> text]
      [] text = "true" -> [kind |-> "Bool", text |-> text]
      [] text = "1.5" -> [kind |-> "Float", text |-> text]
      [] text = "'c'" -> [kind |-> "Char", text |-> text]
      [] text = "b'x'" -> [kind |-> "Byte", text |-> text]
      [] text = "b\"xy\"" -> [kind |-> "ByteString", text |-> text]
      [] OTHER -> [kind |-> "String", text |-> text]

\* LiteralType::from(Literal)
LiteralTypeFrom(lit) == lit.kind

\* StringLit::value()
StringValue(lit) == SubSeq(lit.text, 2, Len(lit.text) - 1)

\* The integer types next_integer is asked for: their MAX.
IntegerTypes == {"u8", "u16", "u32"}

IntegerMax(I) ==
    CASE I = "u8" -> Wide(0, 255)
      [] I = "u16" -> Wide(0, 65535)
      [] I = "u32" -> Wide(65535, 65535)

\* IntegerLit::value::<I>(): the exact value, or None when it overflows I.
IntegerValue(lit, I) ==
    IF WideLeq(IntegerDigits(lit.text), IntegerMax(I))
    THEN [tag |-> "Some", value |-> IntegerDigits(lit.text)]
    ELSE [tag |-> "None"]

\* The value reduced modulo 2^w, which IntegerLit::value never returns.
WrappedValue(lit, I) ==
    LET v == IntegerDigits(lit.text) IN
    CASE I = "u8" -> Wide(0, v[2] % 256)
      [] I = "u16" -> Wide(0, v[2])
      [] I = "u32" -> Wide(v[1] % 65536, v[2])

Lit(text) == [tt |-> "Literal", text |-> text]
Punct(ch) == [tt |-> "Punct", text |-> ch]
Ident(name) == [tt |-> "Ident", text |-> name]

\* Punct::as_char
as_char(token) == token.text

\* TokenStream::into_iter: every token with its location.
Spanned(ts) == [i \in 1..Len(ts) |-> [tt |-> ts[i].tt, text |-> ts[i].text, span |-> i]]

(***************************************************************************)
(* Results and errors                                                      *)
(***************************************************************************)
OkSome(v, span) == [tag |-> "Some", value |-> v, span |-> span]
OkNone == [tag |-> "None"]
Err(kind, span) == [tag |-> "Err", kind |-> kind, span |-> span]

BadType(given, expected) == [kind |-> "BadType", given |-> given, expected |-> expected]
OutOfBound == [kind |-> "OutOfBound"]
UnexpectedToken(text) == [kind |-> "UnexpectedToken", text |-> text]

\* ArgParser::from(TokenStream)
ArgParserFrom(value) == [parsed |-> 0, stream |-> Spanned(value)]

(***************************************************************************)
(* ArgParser.  Each operation maps the parser to [self, result]: the       *)
(* parser after the call and the value returned.                           *)
(***************************************************************************)
\* try_string_literal with given and expected exchanged.
try_string_literal_swapped(lit, span) ==
    IF lit.kind = "String"
    THEN [tag |-> "Ok", value |-> StringValue(lit)]
    ELSE Err(BadType("String", LiteralTypeFrom(lit)), span)

try_string_literal(lit, span) ==
    IF lit.kind = "String"
    THEN [tag |-> "Ok", value |-> StringValue(lit)]
    ELSE Err(BadType(LiteralTypeFrom(lit), "String"), span)

\* try_integer_literal with an "as" cast in place of the checked conversion.
try_integer_literal_wrapping(lit, span, I) ==
    IF lit.kind = "Integer"
    THEN [tag |-> "Ok", value |-> WrappedValue(lit, I)]
    ELSE Err(BadType(LiteralTypeFrom(lit), "Integer"), span)

try_integer_literal(lit, span, I) ==
    IF lit.kind = "Integer"
    THEN IF IntegerValue(lit, I).tag = "Some"
         THEN [tag |-> "Ok", value |-> IntegerValue(lit, I).value]
         ELSE Err(OutOfBound, span)
    ELSE Err(BadType(LiteralTypeFrom(lit), "Integer"), span)

\* next_raw with the error of a malformed separator placed on the literal
\* (ret.span()) instead of on the offending token.
next_raw_blames_literal(self) ==
    IF self.stream # <<>>
    THEN LET token == Head(self.stream)
             rest == Tail(self.stream)
         IN IF token.tt = "Literal"
            THEN IF rest # <<>> /\ (Head(rest).tt # "Punct" \/ as_char(Head(rest)) # ",")
                 THEN [self |-> [parsed |-> self.parsed, stream |-> Tail(rest)],
                       result |-> Err(UnexpectedToken(token.text), token.span)]
                 ELSE [self |-> [parsed |-> self.parsed + 1,
                                 stream |-> IF rest # <<>> THEN Tail(rest) ELSE rest],
                       result |-> OkSome(LiteralFrom(token.text), token.span)]
            ELSE [self |-> [parsed |-> self.parsed, stream |-> rest],
                  result |-> Err(UnexpectedToken(token.text), token.span)]
    ELSE [self |-> self, result |-> OkNone]

\* next_raw with self.parsed += 1 on the exhausted stream too.
next_raw_counts_exhaustion(self) ==
    IF self.stream # <<>>
    THEN LET token == Head(self.stream)
             rest == Tail(self.stream)
         IN IF token.tt = "Literal"
            THEN IF rest # <<>> /\ (Head(rest).tt # "Punct" \/ as_char(Head(rest)) # ",")
                 THEN [self |-> [parsed |-> self.parsed, stream |-> Tail(rest)],
                       result |-> Err(UnexpectedToken(Head(rest).text), Head(rest).span)]
                 ELSE [self |-> [parsed |-> self.parsed + 1,
                                 stream |-> IF rest # <<>> THEN Tail(rest) ELSE rest],
                       result |-> OkSome(LiteralFrom(token.text), token.span)]
            ELSE [self |-> [parsed |-> self.parsed, stream |-> rest],
                  result |-> Err(UnexpectedToken(token.text), token.span)]
    ELSE [self |-> [parsed |-> self.parsed + 1, stream |-> self.stream], result |-> OkNone]

\* next_raw peeking at a non-literal token instead of consuming it.
next_raw_keeps_token(self) ==
    IF self.stream # <<>>
    THEN LET token == Head(self.stream)
             rest == Tail(self.stream)
         IN IF token.tt = "Literal"
            THEN IF rest # <<>> /\ (Head(rest).tt # "Punct" \/ as_char(Head(rest)) # ",")
                 THEN [self |-> [parsed |-> self.parsed, stream |-> Tail(rest)],
                       result |-> Err(UnexpectedToken(Head(rest).text), Head(rest).span)]
                 ELSE [self |-> [parsed |-> self.parsed + 1,
                                 stream |-> IF rest # <<>> THEN Tail(rest) ELSE rest],
                       result |-> OkSome(LiteralFrom(token.text), token.span)]
            ELSE [self |-> [parsed |-> self.parsed, stream |-> self.stream],
                  result |-> Err(UnexpectedToken(token.text), token.span)]
    ELSE [self |-> self, result |-> OkNone]

\* next_raw with self.parsed += 1 placed before the separator is looked at.
next_raw_counts_early(self) ==
    IF self.stream # <<>>
    THEN LET token == Head(self.stream)
             rest == Tail(self.stream)
         IN IF token.tt = "Literal"
            THEN IF rest # <<>> /\ (Head(rest).tt # "Punct" \/ as_char(Head(rest)) # ",")
                 THEN [self |-> [parsed |-> self.parsed + 1, stream |-> Tail(rest)],
                       result |-> Err(UnexpectedToken(Head(rest).text), Head(rest).span)]
                 ELSE [self |-> [parsed |-> self.parsed + 1,
                                 stream |-> IF rest # <<>> THEN Tail(rest) ELSE rest],
                       result |-> OkSome(LiteralFrom(token.text), token.span)]
            ELSE [self |-> [parsed |-> self.parsed, stream |-> rest],
                  result |-> Err(UnexpectedToken(token.text), token.span)]
    ELSE [self |-> self, result |-> OkNone]

\* next_raw peeking at a malformed separator instead of consuming it.
next_raw_keeps_separator(self) ==
    IF self.stream # <<>>
    THEN LET token == Head(self.stream)
             rest == Tail(self.stream)
         IN IF token.tt = "Literal"
            THEN IF rest # <<>> /\ (Head(rest).tt # "Punct" \/ as_char(Head(rest)) # ",")
                 THEN [self |-> [parsed |-> self.parsed, stream |-> rest],
                       result |-> Err(UnexpectedToken(Head(rest).text), Head(rest).span)]
                 ELSE [self |-> [parsed |-> self.parsed + 1,
                                 stream |-> IF rest # <<>> THEN Tail(rest) ELSE rest],
                       result |-> OkSome(LiteralFrom(token.text), token.span)]
            ELSE [self |-> [parsed |-> self.parsed, stream |-> rest],
                  result |-> Err(UnexpectedToken(token.text), token.span)]
    ELSE [self |-> self, result |-> OkNone]

\* next_raw dropping the token behind a malformed separator as well.
next_raw_resyncs(self) ==
    IF self.stream # <<>>
    THEN LET token == Head(self.stream)
             rest == Tail(self.stream)
         IN IF token.tt = "Literal"
            THEN IF rest # <<>> /\ (Head(rest).tt # "Punct" \/ as_char(Head(rest)) # ",")
                 THEN [self |-> [parsed |-> self.parsed,
                                 stream |-> IF Tail(rest) # <<>> THEN Tail(Tail(rest)) ELSE Tail(rest)],
                       result |-> Err(UnexpectedToken(Head(rest).text), Head(rest).span)]
                 ELSE [self |-> [parsed |-> self.parsed + 1,
                                 stream |-> IF rest # <<>> THEN Tail(rest) ELSE rest],
                       result |-> OkSome(LiteralFrom(token.text), token.span)]
            ELSE [self |-> [parsed |-> self.parsed, stream |-> rest],
                  result |-> Err(UnexpectedToken(token.text), token.span)]
    ELSE [self |-> self, result |-> OkNone]

next_raw(self) ==
    IF self.stream # <<>>
    THEN LET token == Head(self.stream)       \* self.stream.next()
             rest == Tail(self.stream)
         IN IF token.tt = "Literal"
            THEN LET unexpected ==             \* the second token is consumed too
                         [self |-> [parsed |-> self.parsed, stream |-> Tail(rest)],
                          result |-> Err(UnexpectedToken(Head(rest).text), Head(rest).span)]
                     found ==
                         [self |-> [parsed |-> self.parsed + 1,
                                    stream |-> IF rest # <<>> THEN Tail(rest) ELSE rest],
                          result |-> OkSome(LiteralFrom(token.text), token.span)]
                 IN IF rest # <<>>
                    THEN IF Head(rest).tt = "Punct"
                         THEN IF as_char(Head(rest)) # "," THEN unexpected ELSE found
                         ELSE unexpected
                    ELSE found
            ELSE [self |-> [parsed |-> self.parsed, stream |-> rest],
                  result |-> Err(UnexpectedToken(token.text), token.span)]
    ELSE [self |-> self, result |-> OkNone]

\* count_arguments returning the number of arguments it drained itself
\* instead of self.parsed.
RECURSIVE count_arguments_remaining(_)
count_arguments_remaining(self) ==
    LET r == next_raw(self) IN
    IF r.result.tag = "Some"
    THEN [self |-> count_arguments_remaining(r.self).self,
          result |-> count_arguments_remaining(r.self).result + 1]
    ELSE [self |-> r.self, result |-> 0]

RECURSIVE count_arguments(_)
count_arguments(self) ==
    LET r == next_raw(self) IN
    IF r.result.tag = "Some"
    THEN count_arguments(r.self)
    ELSE [self |-> r.self, result |-> r.self.parsed]

\* The results of the next_raw invocations of count_arguments' loop, in
\* order: the loop ends with the first that is not Ok(Some).
RECURSIVE count_arguments_calls(_)
count_arguments_calls(self) ==
    LET r == next_raw(self) IN
    IF r.result.tag = "Some"
    THEN <<r.result>> \o count_arguments_calls(r.self)
    ELSE <<r.result>>

\* ignore_next written with next_string, its value dropped.
ignore_next_typed(self) ==
    LET r == next_raw(self) IN
    CASE r.result.tag = "Err" -> r
      [] r.result.tag = "Some" ->
           [self |-> r.self,
            result |-> IF r.result.value.kind = "String"
                       THEN [tag |-> "Some", span |-> r.result.span]
                       ELSE Err(BadType(LiteralTypeFrom(r.result.value), "String"), r.result.span)]
      [] r.result.tag = "None" -> r

ignore_next(self) ==
    LET r == next_raw(self) IN
    CASE r.result.tag = "Err" -> r
      [] r.result.tag = "Some" -> [self |-> r.self, result |-> [tag |-> "Some", span |-> r.result.span]]
      [] r.result.tag = "None" -> r

\* next_string taking the count back when the literal is not a string.
next_string_uncounted(self) ==
    LET r == next_raw(self) IN
    CASE r.result.tag = "Err" -> r
      [] r.result.tag = "Some" ->
           LET v == try_string_literal(r.result.value, r.result.span) IN
           IF v.tag = "Ok"
           THEN [self |-> r.self, result |-> OkSome(v.value, r.result.span)]
           ELSE [self |-> [parsed |-> r.self.parsed - 1, stream |-> r.self.stream],
                 result |-> v]
      [] r.result.tag = "None" -> r

next_string(self) ==
    LET r == next_raw(self) IN
    CASE r.result.tag = "Err" -> r
      [] r.result.tag = "Some" ->
           LET v == try_string_literal(r.result.value, r.result.span) IN
           [self |-> r.self,
            result |-> IF v.tag = "Ok" THEN OkSome(v.value, r.result.span) ELSE v]
      [] r.result.tag = "None" -> r

next_integer(self, I) ==
    LET r == next_raw(self) IN
    CASE r.result.tag = "Err" -> r
      [] r.result.tag = "Some" ->
           LET v == try_integer_literal(r.result.value, r.result.span, I) IN
           [self |-> r.self,
            result |-> IF v.tag = "Ok" THEN OkSome(v.value, r.result.span) ELSE v]
      [] r.result.tag = "None" -> r

(***************************************************************************)
(* The bare decoder: any operation, in any order, on any token stream.     *)
(***************************************************************************)
Parser == [parsed |-> parsed, stream |-> stream]

\* The tokens a stream given to the bare decoder is made of.
Alphabet ==
    {Lit(Quote("192.168.1.5")), Lit("255"), Lit("256"), Lit("4294967296"),
     Lit("1.5"), Lit("'c'"), Lit("b'x'"), Lit("b\"xy\""),
     Punct(","), Punct(";"), Ident("true")}

TokenStreams == UNION {[1..n -> Alphabet] : n \in 0..MaxLen}

NoEntry ==
    /\ entry = "none"
    /\ pc = "none"
    /\ socket = "none"
    /\ outcome = [kind |-> "none"]

Init ==
    /\ item \in {Spanned(ts) : ts \in TokenStreams}
    /\ stream = ArgParserFrom(item).stream
    /\ parsed = ArgParserFrom(item).parsed
    /\ ret = [op |-> "from", type |-> "none", res |-> OkNone]
    /\ before = [parsed |-> 0, stream |-> item]
    /\ phase = "raw"
    /\ nraw = 0
    /\ seenNone = "no"
    /\ nsome = 0
    /\ NoEntry

\* The operations that decode one argument.
DecodeOps == {"next_raw", "next_string", "next_integer", "ignore_next"}

\* The results of the next_raw invocations an operation makes on the
\* parser: count_arguments makes those of its loop, any other operation one.
Invocations(op) ==
    IF op = "count_arguments"
    THEN count_arguments_calls(Parser)
    ELSE <<next_raw(Parser).result>>

\* A decoder call: the parser and the returned value change together.
Decode(op, I, r) ==
    /\ stream' = r.self.stream
    /\ parsed' = r.self.parsed
    /\ ret' = [op |-> op, type |-> I, res |-> r.result]
    /\ before' = Parser
    /\ seenNone' = IF seenNone # "no" THEN "before"
                   ELSE IF op \in DecodeOps /\ r.result = OkNone THEN "now"
                   ELSE "no"
    /\ nsome' = nsome + Cardinality({i \in DOMAIN Invocations(op) :
                                        Invocations(op)[i].tag = "Some"})

Call(op, I, r) ==
    /\ Decode(op, I, r)
    /\ UNCHANGED <<item, entry, pc, socket, outcome>>

NextRaw ==
    /\ phase = "raw" => nraw < MaxCalls
    /\ Call("next_raw", "none", next_raw(Parser))
    /\ phase' = IF phase = "raw" THEN "raw" ELSE "mixed"
    /\ nraw' = IF phase = "raw" THEN nraw + 1 ELSE 0

CountArguments ==
    /\ Call("count_arguments", "none", count_arguments(Parser))
    /\ phase' = IF phase = "raw" THEN "count" ELSE "mixed"
    /\ nraw' = IF phase = "raw" THEN nraw ELSE 0

IgnoreNext ==
    /\ Call("ignore_next", "none", ignore_next(Parser))
    /\ phase' = "mixed"
    /\ nraw' = 0

NextString ==
    /\ Call("next_string", "none", next_string(Parser))
    /\ phase' = "mixed"
    /\ nraw' = 0

NextInteger ==
    \E I \in IntegerTypes :
        /\ Call("next_integer", I, next_integer(Parser, I))
        /\ phase' = "mixed"
        /\ nraw' = 0

Next == NextRaw \/ CountArguments \/ IgnoreNext \/ NextString \/ NextInteger

Spec == Init /\ [][Next]_vars

(***************************************************************************)
(* The entry points (src/src/lib.rs)                                       *)
(***************************************************************************)
EntryPoints == {"ipv4", "ipv6", "ip", "socketv4", "socketv6", "socket"}

\* Span::call_site()
CallSite == 0

\* How an entry point ends: the TokenStream it returns, abort!(span, ..),
\* or a panic of the macro itself.
Output(tokens) == [kind |-> "output", tokens |-> tokens]
Abort(span, message) == [kind |-> "abort", span |-> span, message |-> message]
Panic == [kind |-> "panic"]

\* from_str of the std::net types, on the strings of the documentation
\* tests; any other string is rejected.
Ipv4AddrFromStr(v) ==
    IF v = "192.168.1.5"
    THEN [tag |-> "Ok", value |-> [octets |-> <<192, 168, 1, 5>>]]
    ELSE [tag |-> "Err"]

Ipv6AddrFromStr(v) ==
    IF v = "::1"
    THEN [tag |-> "Ok", value |-> [segments |-> <<0, 0, 0, 0, 0, 0, 0, 1>>]]
    ELSE [tag |-> "Err"]

IpAddrFromStr(v) ==
    CASE Ipv4AddrFromStr(v).tag = "Ok" -> [tag |-> "Ok", value |-> [V4 |-> Ipv4AddrFromStr(v).value]]
      [] Ipv6AddrFromStr(v).tag = "Ok" -> [tag |-> "Ok", value |-> [V6 |-> Ipv6AddrFromStr(v).value]]
      [] OTHER -> [tag |-> "Err"]

SocketAddrV4FromStr(v) ==
    IF v = "192.168.1.5:3000"
    THEN [tag |-> "Ok", value |-> [ip |-> Ipv4AddrFromStr("192.168.1.5").value, port |-> 3000]]
    ELSE [tag |-> "Err"]

SocketAddrV6FromStr(v) ==
    IF v = "[::1]:3000"
    THEN [tag |-> "Ok", value |-> [ip |-> Ipv6AddrFromStr("::1").value, port |-> 3000,
                                   flowinfo |-> Wide(0, 0), scope_id |-> Wide(0, 0)]]
    ELSE [tag |-> "Err"]

SocketAddrFromStr(v) ==
    CASE SocketAddrV4FromStr(v).tag = "Ok" -> [tag |-> "Ok", value |-> [V4 |-> SocketAddrV4FromStr(v).value]]
      [] SocketAddrV6FromStr(v).tag = "Ok" -> [tag |-> "Ok", value |-> [V6 |-> SocketAddrV6FromStr(v).value]]
      [] OTHER -> [tag |-> "Err"]

\* The from_str each entry point calls on its first argument.
from_str(e, v) ==
    CASE e = "ipv4" -> Ipv4AddrFromStr(v)
      [] e = "ipv6" -> Ipv6AddrFromStr(v)
      [] e = "ip" -> IpAddrFromStr(v)
      [] e = "socketv4" -> SocketAddrV4FromStr(v)
      [] e = "socketv6" -> SocketAddrV6FromStr(v)
      [] e = "socket" -> SocketAddrFromStr(v)

\* What each entry point does when from_str fails: four unwrap the result,
\* socketv6 and socket abort at the string's location.
invalid_address(e, v, span) ==
    IF e \in {"socketv6", "socket"}
    THEN Abort(span, [msg |-> "not a valid address", address |-> v])
    ELSE Panic

\* The generated constructor calls, as [ctor, args].
generate_ipv4_stream(addr) == [ctor |-> "Ipv4Addr::new", args |-> addr.octets]

generate_ipv4_socket_stream(sock) ==
    [ctor |-> "SocketAddrV4::new", args |-> <<generate_ipv4_stream(sock.ip), sock.port>>]

generate_ipv6_stream(addr) == [ctor |-> "Ipv6Addr::new", args |-> addr.segments]

generate_ipv6_socket_stream(sock) ==
    [ctor |-> "SocketAddrV6::new",
     args |-> <<generate_ipv6_stream(sock.ip), sock.port, sock.flowinfo, sock.scope_id>>]

generate_ip_stream(addr) ==
    IF "V4" \in DOMAIN addr
    THEN [ctor |-> "IpAddr::V4", args |-> <<generate_ipv4_stream(addr.V4)>>]
    ELSE [ctor |-> "IpAddr::V6", args |-> <<generate_ipv6_stream(addr.V6)>>]

generate_ip_socket_stream(sock) ==
    IF "V4" \in DOMAIN sock
    THEN [ctor |-> "SocketAddr::V4", args |-> <<generate_ipv4_socket_stream(sock.V4)>>]
    ELSE [ctor |-> "SocketAddr::V6", args |-> <<generate_ipv6_socket_stream(sock.V6)>>]

\* The last statement of each entry point.
generate(e, value) ==
    CASE e = "ipv4" -> generate_ipv4_stream(value)
      [] e = "ipv6" -> generate_ipv6_stream(value)
      [] e = "ip" -> generate_ip_stream(value)
      [] e = "socketv4" -> generate_ipv4_socket_stream(value)
      [] e = "socketv6" -> generate_ipv6_socket_stream(value)
      [] e = "socket" -> generate_ip_socket_stream(value)

\* report_error aborting at the macro call instead of at e.span().
report_error_at_call_site(e) == Abort(CallSite, e.kind)

\* report_error, on an Err: abort!(e.span(), "{}", e)
report_error(e) == Abort(e.span, e.kind)

report_too_few_arguments_error(given, expected) ==
    Abort(CallSite, [msg |-> "Too few argument", given |-> given, expected |-> expected])

\* report_too_many_arguments_error with given and expected exchanged.
report_too_many_arguments_error_swapped(span, given, expected) ==
    Abort(span, [msg |-> "Too many arguments", given |-> expected, expected |-> given])

report_too_many_arguments_error(span, given, expected) ==
    Abort(span, [msg |-> "Too many arguments", given |-> given, expected |-> expected])

\* The number of arguments each entry point accepts at most.
Expected(e) == IF e = "socketv6" THEN 3 ELSE 1

\* SocketAddrV6::set_flowinfo storing into the scope id.
set_flowinfo_into_scope_id(sock, v) == [sock EXCEPT !.scope_id = v]

\* SocketAddrV6::set_flowinfo, SocketAddrV6::set_scope_id
set_flowinfo(sock, v) == [sock EXCEPT !.flowinfo = v]

set_scope_id(sock, v) == [sock EXCEPT !.scope_id = v]

\* The entry point ends with outcome o.
End(o) ==
    /\ outcome' = o
    /\ pc' = "done"
    /\ socket' = socket

\* The entry point goes on to statement next, holding value.
Goto(next, value) ==
    /\ pc' = next
    /\ socket' = value
    /\ outcome' = outcome

\* let ip = if let Some((v, span)) = report_error(parser.next_string()) { .. }
ParseAddress ==
    /\ pc = "address"
    /\ LET r == next_string(Parser) IN
       /\ Decode("next_string", "none", r)
       /\ CASE r.result.tag = "Err" -> End(report_error(r.result))
            [] r.result.tag = "None" -> End(report_too_few_arguments_error(0, 1))
            [] r.result.tag = "Some" ->
                 LET a == from_str(entry, r.result.value) IN
                 IF a.tag = "Ok"
                 THEN Goto(IF entry = "socketv6" THEN "flow_info" ELSE "ignore_next", a.value)
                 ELSE End(invalid_address(entry, r.result.value, r.result.span))
    /\ UNCHANGED <<item, entry, phase, nraw>>

\* if let Some((flow_info, _)) = report_error(parser.next_integer()) { .. }
SetFlowInfo ==
    /\ pc = "flow_info"
    /\ LET r == next_integer(Parser, "u32") IN
       /\ Decode("next_integer", "u32", r)
       /\ CASE r.result.tag = "Err" -> End(report_error(r.result))
            [] r.result.tag = "None" -> Goto("scope_id", socket)
            [] r.result.tag = "Some" -> Goto("scope_id", set_flowinfo(socket, r.result.value))
    /\ UNCHANGED <<item, entry, phase, nraw>>

\* if let Some((scope_id, _)) = report_error(parser.next_integer()) { .. }
SetScopeId ==
    /\ pc = "scope_id"
    /\ LET r == next_integer(Parser, "u32") IN
       /\ Decode("next_integer", "u32", r)
       /\ CASE r.result.tag = "Err" -> End(report_error(r.result))
            [] r.result.tag = "None" -> Goto("ignore_next", socket)
            [] r.result.tag = "Some" -> Goto("ignore_next", set_scope_id(socket, r.result.value))
    /\ UNCHANGED <<item, entry, phase, nraw>>

\* if let Some(span) = report_error(parser.ignore_next()) { .. }
CheckTooMany ==
    /\ pc = "ignore_next"
    /\ LET r == ignore_next(Parser) IN
       /\ Decode("ignore_next", "none", r)
       /\ CASE r.result.tag = "Err" -> End(report_error(r.result))
            [] r.result.tag = "None" -> Goto("generate", socket)
            [] r.result.tag = "Some" -> Goto("count_arguments", socket)
    /\ UNCHANGED <<item, entry, phase, nraw>>

\* report_too_many_arguments_error(span, parser.count_arguments(), expected):
\* span is the location ignore_next has just returned.
ReportTooMany ==
    /\ pc = "count_arguments"
    /\ LET r == count_arguments(Parser) IN
       /\ End(report_too_many_arguments_error(ret.res.span, r.result, Expected(entry)))
       /\ Decode("count_arguments", "none", r)
    /\ UNCHANGED <<item, entry, phase, nraw>>

\* generate_.._stream(&ip)
Generate ==
    /\ pc = "generate"
    /\ End(Output(generate(entry, socket)))
    /\ UNCHANGED <<item, entry, stream, parsed, ret, before, phase, nraw, seenNone, nsome>>

\* The macro inputs: a list of literal arguments, separated by commas but
\* for one place (after argument `at`), where the separator is `sep`:
\* a comma, a semicolon, or nothing.  After the last argument, a comma is a
\* trailing comma and nothing is the well-formed end.
FirstArguments ==
    {Quote("192.168.1.5"), Quote("::1"), Quote("192.168.1.5:3000"), Quote("[::1]:3000"), "58"}

OtherArguments == {"58", "30", "4294967296", "1.5"}

ArgumentLists ==
    UNION {{args \in [1..n -> FirstArguments \cup OtherArguments] :
                \A i \in 1..n :
                    args[i] \in IF i = 1 THEN FirstArguments ELSE OtherArguments} :
           n \in 0..MaxArgs}

Separators == {",", ";", ""}

RECURSIVE Build(_, _, _, _)
Build(args, i, at, sep) ==
    IF i > Len(args) THEN <<>>
    ELSE LET s == IF i = at THEN sep ELSE IF i = Len(args) THEN "" ELSE ","
         IN <<Lit(args[i])>> \o (IF s = "" THEN <<>> ELSE <<Punct(s)>>)
                \o Build(args, i + 1, at, sep)

EntryInit ==
    /\ entry \in EntryPoints
    /\ \E args \in ArgumentLists : \E at \in 0..Len(args) : \E sep \in Separators :
           item = Spanned(Build(args, 1, at, sep))
    /\ stream = ArgParserFrom(item).stream
    /\ parsed = ArgParserFrom(item).parsed
    /\ ret = [op |-> "from", type |-> "none", res |-> OkNone]
    /\ before = [parsed |-> 0, stream |-> item]
    /\ phase = "mixed"
    /\ nraw = 0
    /\ seenNone = "no"
    /\ nsome = 0
    /\ pc = "address"
    /\ socket = "none"
    /\ outcome = [kind |-> "none"]

EntryNext ==
    ParseAddress \/ SetFlowInfo \/ SetScopeId \/ CheckTooMany \/ ReportTooMany \/ Generate

EntrySpec == EntryInit /\ [][EntryNext]_vars

(***************************************************************************)
(* Claims about the decoder                                                *)
(***************************************************************************)
IsComma(token) == token.tt = "Punct" /\ as_char(token) = ","

\* literal (, literal)* : no trailing comma
WellFormed(ts) ==
    /\ Len(ts) % 2 = 1
    /\ \A i \in 1..Len(ts) : IF i % 2 = 1 THEN ts[i].tt = "Literal" ELSE IsComma(ts[i])

\* The last call was decode operation op and began at a literal token.
AtLiteral(op) ==
    /\ ret.op = op
    /\ before.stream # <<>>
    /\ Head(before.stream).tt = "Literal"

\* The literal the last call began at is followed by a comma or by nothing.
Delimited == Len(before.stream) = 1 \/ IsComma(before.stream[2])

\* C1: on a well-formed stream of n literals, the i-th of n successive
\* next_raw calls on a fresh decoder returns Ok(Some) with the i-th literal
\* and its location, the (n+1)-th returns Ok(None), and count_arguments
\* called after them returns n.
C1_WellFormedStream ==
    WellFormed(item) =>
        LET n == (Len(item) + 1) \div 2 IN
        /\ (phase = "raw" /\ nraw \in 1..n) =>
               /\ ret.op = "next_raw"
               /\ ret.res = OkSome(LiteralFrom(item[2 * nraw - 1].text), 2 * nraw - 1)
        /\ (phase = "raw" /\ nraw = n + 1) => (ret.op = "next_raw" /\ ret.res = OkNone)
        /\ (phase = "count" /\ nraw = n + 1) => (ret.op = "count_arguments" /\ ret.res = n)

C1_Witness ==
    /\ WellFormed(item)
    /\ Len(item) = 3
    /\ phase = "count"
    /\ nraw = 3
    /\ ret.res = 2

\* C2 (as amended): when the next token is a literal of a kind other than
\* String and that literal is followed by a comma or ends the stream,
\* next_string returns Err BadType{given = the literal's kind, expected =
\* String}, whatever follows the comma.
C2_BadTypeWhenDelimited ==
    (AtLiteral("next_string") /\ Delimited
        /\ LiteralFrom(Head(before.stream).text).kind # "String") =>
    /\ ret.res.tag = "Err"
    /\ ret.res.kind = BadType(LiteralFrom(Head(before.stream).text).kind, "String")

C2_Witness ==
    /\ AtLiteral("next_string")
    /\ Len(before.stream) = 3
    /\ IsComma(before.stream[2])
    /\ before.stream[3].tt = "Ident"
    /\ LiteralFrom(Head(before.stream).text).kind = "Integer"
    /\ ret.res.tag = "Err"
    /\ ret.res.kind = BadType("Integer", "String")

\* C2 as stated: next_string on a non-String literal returns BadType whatever
\* tokens follow the literal.
C2_BadTypeWhateverFollows ==
    (AtLiteral("next_string") /\ LiteralFrom(Head(before.stream).text).kind # "String") =>
    /\ ret.res.tag = "Err"
    /\ ret.res.kind = BadType(LiteralFrom(Head(before.stream).text).kind, "String")

\* C3: next_integer<I> on a correctly delimited integer literal returns the
\* literal's exact value when it is at most I::MAX and Err(OutOfBound)
\* otherwise; never a value reduced modulo 2^w.
C3_ExactOrOutOfBound ==
    (AtLiteral("next_integer") /\ Delimited
        /\ LiteralFrom(Head(before.stream).text).kind = "Integer") =>
    LET lit == Head(before.stream) IN
    IF WideLeq(IntegerDigits(lit.text), IntegerMax(ret.type))
    THEN ret.res = OkSome(IntegerDigits(lit.text), lit.span)
    ELSE ret.res = Err(OutOfBound, lit.span)

C3_Witness ==
    /\ AtLiteral("next_integer")
    /\ Head(before.stream).text = "4294967296"
    /\ ret.type = "u32"
    /\ ret.res.tag = "Err"
    /\ ret.res.kind = OutOfBound

\* C4: when a literal is immediately followed by a token that is not a
\* comma, the decode call that reads the literal returns
\* Err(UnexpectedToken) with the text and location of the following token.
C4_UnexpectedSeparator ==
    \A op \in DecodeOps :
        (AtLiteral(op) /\ ~Delimited) =>
            ret.res = Err(UnexpectedToken(before.stream[2].text), before.stream[2].span)

C4_Witness ==
    /\ AtLiteral("next_string")
    /\ Len(before.stream) >= 2
    /\ before.stream[2].tt = "Literal"
    /\ ret.res.tag = "Err"
    /\ ret.res.span = before.stream[2].span
    /\ ret.res.span # Head(before.stream).span

\* C5: count_arguments called twice in succession returns the same count
\* both times.
C5_CountIdempotent ==
    [][(ret.op = "count_arguments" /\ ret'.op = "count_arguments")
        => ret'.res = ret.res]_vars

\* C6: after count_arguments returns, no token remains unconsumed.
C6_CountDrains == ret.op = "count_arguments" => stream = <<>>

(***************************************************************************)
(* Claims about the entry points                                           *)
(***************************************************************************)
\* The number of arguments of a well-formed input.
NumArgs(ts) == (Len(ts) + 1) \div 2

\* The i-th argument of a well-formed input.
Arg(ts, i) == ts[2 * i - 1]

FirstIsString(ts) ==
    /\ ts # <<>>
    /\ ts[1].tt = "Literal"
    /\ LiteralFrom(ts[1].text).kind = "String"

FirstValue(ts) == StringValue(LiteralFrom(ts[1].text))

\* literal (, literal)* ,
TrailingComma(ts) ==
    /\ Len(ts) >= 2
    /\ WellFormed(SubSeq(ts, 1, Len(ts) - 1))
    /\ IsComma(ts[Len(ts)])

\* C7: in every entry point, a first argument that is a string literal but
\* not a valid address of the required form ends in an abort anchored at
\* that string's location.
C7_InvalidAddressAborts ==
    (/\ pc = "done"
     /\ FirstIsString(item)
     /\ Len(item) = 1 \/ IsComma(item[2])
     /\ from_str(entry, FirstValue(item)).tag = "Err") =>
    /\ outcome.kind = "abort"
    /\ outcome.span = item[1].span

\* C8: an input ending with a comma after its last literal is rejected: the
\* entry point produces no output.
C8_TrailingCommaRejected ==
    (pc = "done" /\ TrailingComma(item)) => outcome.kind # "output"

\* C9: a single-string entry point given a well-formed input of n literals
\* whose first is a valid address string: n = 0 is the too-few failure
\* (given 0, expected 1), n = 1 yields the output, n >= 2 is the too-many
\* failure at the second argument's location with given n, expected 1.
C9_SingleStringArity ==
    (/\ entry \in EntryPoints \ {"socketv6"}
     /\ pc = "done"
     /\ \/ item = <<>>
        \/ /\ WellFormed(item)
           /\ FirstIsString(item)
           /\ from_str(entry, FirstValue(item)).tag = "Ok") =>
    CASE item = <<>> ->
           /\ outcome.kind = "abort"
           /\ outcome.message = [msg |-> "Too few argument", given |-> 0, expected |-> 1]
      [] NumArgs(item) = 1 ->
           outcome = Output(generate(entry, from_str(entry, FirstValue(item)).value))
      [] OTHER ->
           /\ outcome.kind = "abort"
           /\ outcome.span = Arg(item, 2).span
           /\ outcome.message =
                 [msg |-> "Too many arguments", given |-> NumArgs(item), expected |-> 1]

C9_Witness ==
    /\ entry = "ip"
    /\ pc = "done"
    /\ WellFormed(item)
    /\ NumArgs(item) = 3
    /\ FirstValue(item) = "::1"
    /\ outcome.kind = "abort"
    /\ outcome.span = 3
    /\ outcome.message.given = 3

\* The second and third arguments, when present, are integer literals that
\* fit 32 bits unsigned.
IntegerArguments(ts) ==
    \A i \in 2..3 :
        i <= NumArgs(ts) =>
            /\ LiteralFrom(Arg(ts, i).text).kind = "Integer"
            /\ WideLeq(IntegerDigits(Arg(ts, i).text), IntegerMax("u32"))

Decoded == ret.op \in DecodeOps

\* The number of tokens the last call consumed.
Consumed == Len(before.stream) - Len(stream)

IsSuffix(s, t) == Len(s) <= Len(t) /\ s = SubSeq(t, Len(t) - Len(s) + 1, Len(t))

\* C11: once a decode operation has returned Ok(None), every later decode
\* operation returns Ok(None) and no later call changes parsed; next_raw on
\* an empty stream returns Ok(None).
C11_ExhaustionIdempotent ==
    /\ seenNone = "before" =>
          /\ Decoded => ret.res = OkNone
          /\ parsed = before.parsed
    /\ (ret.op = "next_raw" /\ before.stream = <<>>) =>
          (ret.res = OkNone /\ parsed = before.parsed)

C11_Witness ==
    /\ seenNone = "before"
    /\ ret.op = "next_integer"
    /\ ret.res = OkNone
    /\ parsed = 2

\* C12: when the token in argument position is not a literal, the decode
\* call returns Err(UnexpectedToken) with that token's text and location,
\* consumes exactly that token and leaves parsed unchanged.
C12_NonLiteralArgument ==
    (Decoded /\ before.stream # <<>> /\ Head(before.stream).tt # "Literal") =>
    /\ ret.res = Err(UnexpectedToken(Head(before.stream).text), Head(before.stream).span)
    /\ stream = Tail(before.stream)
    /\ parsed = before.parsed

\* The second comma of a doubled comma.
C12_Witness ==
    /\ Decoded
    /\ Len(item) = 3
    /\ IsComma(item[2])
    /\ before.stream = <<item[3]>>
    /\ IsComma(item[3])
    /\ ret.res.tag = "Err"
    /\ ret.res.span = 3
    /\ stream = <<>>

\* C13: parsed never decreases and equals the number of next_raw
\* invocations that returned Ok(Some): a next_raw call adds one when it
\* returns Ok(Some) and nothing when it returns Ok(None) or Err.
C13_ParsedCountsSuccesses ==
    /\ parsed = nsome
    /\ parsed >= before.parsed
    /\ ret.op = "next_raw" =>
          parsed = before.parsed + (IF ret.res.tag = "Some" THEN 1 ELSE 0)

C13_Witness ==
    /\ ret.op = "next_raw"
    /\ ret.res.tag = "Err"
    /\ before.parsed = 1
    /\ parsed = 1
    /\ nsome = 1

\* C15: a decode call that fails on a malformed separator leaves both the
\* literal and the offending token consumed and parsed unchanged; every
\* call starts where the one before ended and returns only the token it
\* starts at, so the literal before the bad separator is not returned later.
C15_NoRollback ==
    /\ (Decoded /\ AtLiteral(ret.op) /\ ~Delimited) =>
          /\ stream = Tail(Tail(before.stream))
          /\ parsed = before.parsed
    /\ (Decoded /\ ret.res.tag = "Some") => ret.res.span = Head(before.stream).span
    /\ IsSuffix(stream, before.stream)
    /\ IsSuffix(before.stream, item)

\* The call after a failure on `literal ;` returns the third token, and
\* only that one is counted.
C15_Witness ==
    /\ Len(item) = 3
    /\ item[1].tt = "Literal"
    /\ ~IsComma(item[2])
    /\ Decoded
    /\ before.stream = <<item[3]>>
    /\ ret.res.tag = "Some"
    /\ ret.res.span = 3
    /\ parsed = 1

\* C16: ignore_next consumes one raw argument whatever the literal's kind:
\* Ok(Some(the literal's location)) when next_raw would return Ok(Some),
\* Ok(None) at exhaustion, and never BadType or OutOfBound.
C16_IgnoreNextUntyped ==
    ret.op = "ignore_next" =>
    /\ (before.stream # <<>> /\ Head(before.stream).tt = "Literal" /\ Delimited) =>
          /\ ret.res = [tag |-> "Some", span |-> Head(before.stream).span]
          /\ parsed = before.parsed + 1
          /\ stream = IF Len(before.stream) = 1 THEN <<>> ELSE Tail(Tail(before.stream))
    /\ before.stream = <<>> => ret.res = OkNone
    /\ ret.res.tag = "Err" => ret.res.kind.kind = "UnexpectedToken"
    /\ ret.res.tag = next_raw(before).result.tag

C16_Witness ==
    /\ AtLiteral("ignore_next")
    /\ LiteralFrom(Head(before.stream).text).kind = "Float"
    /\ Len(before.stream) = 3
    /\ ret.res = [tag |-> "Some", span |-> Head(before.stream).span]
    /\ Len(stream) = 1

\* C17: when next_string or next_integer returns BadType or OutOfBound, the
\* argument is consumed and counted: the parser is as ignore_next would
\* have left it, and a later count_arguments includes the argument.
C17_TypeErrorConsumes ==
    (/\ ret.op \in {"next_string", "next_integer"}
     /\ ret.res.tag = "Err"
     /\ ret.res.kind.kind \in {"BadType", "OutOfBound"}) =>
    /\ ignore_next(before).result = [tag |-> "Some", span |-> ret.res.span]
    /\ Parser = ignore_next(before).self
    /\ parsed = before.parsed + 1
    /\ count_arguments(Parser).result >= before.parsed + 1

C17_Witness ==
    /\ ret.op = "next_integer"
    /\ ret.res.tag = "Err"
    /\ ret.res.kind = OutOfBound
    /\ Len(before.stream) = 3
    /\ Len(stream) = 1
    /\ parsed = 1

\* C18: a decode call consumes one or two tokens of a non-empty stream and
\* none of an empty one; count_arguments makes at most as many next_raw
\* calls as tokens remain, plus one.
C18_BoundedConsumption ==
    /\ (Decoded /\ before.stream = <<>>) => Consumed = 0
    /\ (Decoded /\ before.stream # <<>>) => Consumed \in 1..2
    /\ ret.op = "count_arguments" =>
          Len(count_arguments_calls(before)) <= Len(before.stream) + 1

C18_Witness ==
    /\ ret.op = "count_arguments"
    /\ Len(before.stream) = 1
    /\ Len(count_arguments_calls(before)) = 2
    /\ stream = <<>>

(***************************************************************************)
(* Further claims about the entry points                                   *)
(***************************************************************************)
\* The last decoder call was next_string, next_integer or ignore_next and
\* returned Err.
ErrReturned ==
    /\ ret.op \in {"next_string", "next_integer", "ignore_next"}
    /\ ret.res.tag = "Err"

\* C14: an entry point takes no step after next_string, next_integer or
\* ignore_next has returned Err; it has then ended with that error as its
\* failure; and it produces output only when no such call returned Err and
\* ignore_next returned None.
C14_FailFast ==
    [][/\ ~ErrReturned
       /\ ErrReturned' => (pc' = "done" /\ outcome' = Abort(ret'.res.span, ret'.res.kind))
       /\ outcome'.kind = "output" =>
             (ret'.op = "ignore_next" /\ ret'.res = OkNone)]_vars

C14_Witness ==
    /\ entry = "socketv6"
    /\ ErrReturned
    /\ ret.op = "next_integer"
    /\ before.parsed = 2
    /\ pc = "done"
    /\ outcome = Abort(ret.res.span, OutOfBound)

====
